---- MODULE Spec2Model ----
(***************************************************************************)
(* Email/attachment corpus question answering (smith952/kilburnmassive).   *)
(*                                                                         *)
(* The programs of the repository are modelled, each under its own         *)
(* specification:                                                          *)
(*   SpecChunks     the "chunks" server (src/unnamed/part_000): record     *)
(*                  store, flat chunker buildChunks, GET /api/chunks;      *)
(*   SpecAsk        the "index/select" server (src/server.js 432-875) and  *)
(*                  the first /api/ask variant (src/server.js 371-425);    *)
(*   SpecMapReduce  the map-reduce orchestrator that consumes /api/chunks; *)
(*   SpecSanitize   sanitize (src/server.js 486-492) over short texts;     *)
(*   SpecMime       extractText and parseEml (src/server.js 494-571) over  *)
(*                  multipart messages nested up to three levels;          *)
(*   SpecLoad       loadAllFolder, loadFromZipBuffer and the store they    *)
(*                  fill (src/server.js 599-761), one file at a time;      *)
(*   SpecClient     the browser clients (src/public/app.js and             *)
(*                  src/unnamed/part_001): the Ask button, the prompt box  *)
(*                  and the calls of ask() in progress.                    *)
(*                                                                         *)
(* Strings are modelled by what the code reads of them: a record carries   *)
(* the length of its body and the serialized length of everything else     *)
(* (metaLen: JSON punctuation, keys and the other fields), so that         *)
(* JSON.stringify(r).length = metaLen + bodyLen.                           *)
(***************************************************************************)
EXTENDS Integers, Sequences, FiniteSets, TLC

VARIABLES
    ALL_RECORDS,   \* let ALL_RECORDS = []      (both servers)
    CHUNKS,        \* let CHUNKS = []           (chunks server)
    booted,        \* has the app.listen callback finished its auto-load
    chunksResp,    \* last response of GET /api/chunks (status 0 before any)
    INDEX,         \* let INDEX = []            (index/select server)
    apiKey,        \* is process.env.OPENAI_API_KEY set
    pc,            \* where the /api/ask request in flight is suspended
    ask,           \* the locals of the /api/ask handler
    calls,         \* the requests sent to the remote model endpoint, in order
    resp,          \* the response of /api/ask (status 0 until it is sent)
    mr,            \* the map-reduce orchestrator: position, chunk, results
    input,         \* the argument of sanitize / parseEml under check
    output,        \* what the function returned, one entry per application
    loader,        \* the load in flight: its file list, position and locals
    page           \* the browser page: askBtn, promptInput, the asks in flight

chunkWorld == <<CHUNKS, chunksResp>>

askWorld == <<INDEX, apiKey, pc, ask, calls, resp>>

unitWorld == <<input, output, loader, page>>

\* no load in flight
NoLoad == [st |-> "idle", who |-> "none", files |-> <<>>, pos |-> 0, id |-> 0,
           records |-> <<>>]

\* no page open
NoPage == [client |-> "none"]

\* the state of the text functions and of the stepwise loader, not part of
\* the servers above
UnitUnused ==
    /\ input = <<>>
    /\ output = <<>>
    /\ loader = NoLoad
    /\ page = NoPage

\* ------------------------------------------------------------------ helpers

Min(a, b) == IF a < b THEN a ELSE b

Max(a, b) == IF a > b THEN a ELSE b

\* Math.ceil(a / b) for a >= 0, b > 0
CeilDiv(a, b) == (a + b - 1) \div b

RECURSIVE SumLen(_)
\* lines.reduce((sum, l) => sum + l.length, 0)
SumLen(lines) == IF lines = <<>> THEN 0 ELSE Head(lines).len + SumLen(Tail(lines))

RECURSIVE Flatten(_)
\* the concatenation of a sequence of sequences, in order
Flatten(ss) == IF ss = <<>> THEN <<>> ELSE Head(ss) \o Flatten(Tail(ss))

\* ------------------------------------------------------------------ bounds

\* longest record list loaded into the chunks server
MaxRecords == 5

\* ------------------------------------------------- chunks server: chunker

TARGET_CHUNKS == 3

\* r.body.slice(0, 4000) for an attachment
ATTACHMENT_CONTENT_CAP == 4000

\* r.body.slice(0, 500) for an email
EMAIL_BODY_CAP == 500

\* compactRecord keeps the body's first 4000 (attachment) or 500 (email) chars
compactRecord(r) ==
    IF r.type = "attachment"
    THEN [type |-> "attachment", rec |-> r.id, metaLen |-> r.metaLen,
          contentLen |-> Min(r.bodyLen, ATTACHMENT_CONTENT_CAP)]
    ELSE [type |-> "email", rec |-> r.id, metaLen |-> r.metaLen,
          contentLen |-> Min(r.bodyLen, EMAIL_BODY_CAP)]

\* JSON.stringify(compactRecord(r)): the line, by the record it came from and
\* its length
CompactLine(r) ==
    LET c == compactRecord(r) IN [rec |-> c.rec, len |-> c.metaLen + c.contentLen]

\* records.map((r) => JSON.stringify(compactRecord(r)))
Compacted(records) == [i \in 1..Len(records) |-> CompactLine(records[i])]

\* Math.ceil(totalChars / TARGET_CHUNKS)
ChunkSize(compacted) == CeilDiv(SumLen(compacted), TARGET_CHUNKS)

ShouldCloseNoAdd(currentSize, lineLen, chunkSize, currentLen) ==
    currentSize > chunkSize /\ currentLen > 0

ShouldCloseEvenEmpty(currentSize, lineLen, chunkSize, currentLen) ==
    currentSize + lineLen > chunkSize

ShouldCloseAtEqual(currentSize, lineLen, chunkSize, currentLen) ==
    currentSize + lineLen >= chunkSize /\ currentLen > 0

\* if (currentSize + line.length > chunkSize && current.length > 0)
ShouldClose(currentSize, lineLen, chunkSize, currentLen) ==
    currentSize + lineLen > chunkSize /\ currentLen > 0

RECURSIVE ChunkLoop(_, _, _, _, _)
\* the for loop of buildChunks and the final push of a non-empty current
ChunkLoop(lines, chunkSize, chunks, current, currentSize) ==
    IF lines = <<>>
    THEN IF Len(current) > 0 THEN Append(chunks, current) ELSE chunks
    ELSE LET line  == Head(lines)
             close == ShouldClose(currentSize, line.len, chunkSize, Len(current))
             chunks1 == IF close THEN Append(chunks, current) ELSE chunks
             current1 == IF close THEN <<>> ELSE current
             size1 == IF close THEN 0 ELSE currentSize
         IN ChunkLoop(Tail(lines), chunkSize, chunks1,
                      Append(current1, line), size1 + line.len)

buildChunks(records) ==
    LET compacted == Compacted(records)
    IN ChunkLoop(compacted, ChunkSize(compacted), <<>>, <<>>, 0)

\* ------------------------------------------------ chunks server: the store

\* The record shapes a load can return, by serialized size: an email of
\* 30,000 compact chars, an attachment of 10,000, an email of 90,000 and a
\* small attachment (body just over the 20-char retention threshold).
ChunkShapes ==
    { [type |-> "email",      metaLen |-> 29500, bodyLen |-> 800],
      [type |-> "attachment", metaLen |-> 6000,  bodyLen |-> 5000],
      [type |-> "email",      metaLen |-> 89600, bodyLen |-> 400],
      [type |-> "attachment", metaLen |-> 100,   bodyLen |-> 21] }

\* a record of the given shape at file position i (id++ per recognized file)
MkRecord(shape, i) ==
    [id |-> i, filename |-> i, type |-> shape.type,
     metaLen |-> shape.metaLen, bodyLen |-> shape.bodyLen]

\* what loadAllFolder can return: up to MaxRecords records, any shapes
ChunkCorpora ==
    UNION { { [i \in 1..n |-> MkRecord(f[i], i)] : f \in [1..n -> ChunkShapes] }
            : n \in 0..MaxRecords }

\* app.listen callback: ALL_RECORDS = await loadAllFolder(ALL_DIR);
\* CHUNKS = buildChunks(ALL_RECORDS), for a folder among corpora
AutoLoadFrom(corpora) ==
    /\ ~booted
    /\ \E records \in corpora :
          /\ ALL_RECORDS' = records
          /\ CHUNKS' = buildChunks(records)
    /\ booted' = TRUE
    /\ UNCHANGED <<chunksResp, askWorld, mr, unitWorld>>

ChunksAutoLoad == AutoLoadFrom(ChunkCorpora)

\* lines.join("\n").length
JoinedLen(lines) == SumLen(lines) + (IF Len(lines) = 0 THEN 0 ELSE Len(lines) - 1)

ChunkOutput(lines) == [records |-> Len(lines), chars |-> JoinedLen(lines)]

\* app.get("/api/chunks")
GetChunks ==
    /\ chunksResp' =
          IF Len(ALL_RECORDS) = 0
          THEN [status |-> 400, error |-> "No data loaded yet. Try again in a moment."]
          ELSE [status |-> 200,
                totalRecords |-> Len(ALL_RECORDS),
                chunks |-> [k \in 1..Len(CHUNKS) |-> ChunkOutput(CHUNKS[k])]]
    /\ UNCHANGED <<ALL_RECORDS, CHUNKS, booted, askWorld, mr, unitWorld>>

\* the orchestrator before any question
NoRun == [pc |-> "idle", idx |-> 0, attempts |-> 0, last |-> "none",
          results |-> <<>>, answer |-> "none"]

\* the index/select server's state, not part of the chunks server
AskUnused ==
    /\ INDEX = <<>>
    /\ apiKey = FALSE
    /\ pc = "idle"
    /\ ask = <<>>
    /\ calls = <<>>
    /\ resp = [status |-> 0, body |-> <<>>]

ChunksInit ==
    /\ AskUnused
    /\ UnitUnused
    /\ mr = NoRun
    /\ ALL_RECORDS = <<>>
    /\ CHUNKS = <<>>
    /\ booted = FALSE
    /\ chunksResp = [status |-> 0]

ChunksNext == ChunksAutoLoad \/ GetChunks

vars == <<ALL_RECORDS, booted, chunkWorld, askWorld, mr, unitWorld>>

SpecChunks == ChunksInit /\ [][ChunksNext]_vars

\* ------------------------------------------- index/select server: the store

\* stores of 0..SmallStore records, and one of LongStore records (more than
\* the 15 of the default selection)
SmallStore == 2

LongStore == 16

StoreSizes == (0..SmallStore) \cup {LongStore}

StorePatterns == {"small", "big", "edge"}

\* The record at file position i of a folder of the given pattern.
\*   small: emails of 1,000 body chars;
\*   big:   attachments of 60,000 body chars, the second recognized file not
\*          retained (ids 1, 3, 4, ...);
\*   edge:  an email of 99,500 body chars, then an attachment of 400 body
\*          chars with long names, then emails of 100 (shorter than the
\*          index preview).
\* metaLen is JSON.stringify(r).length less the body's characters, which are
\* taken to need no JSON escaping.
StoreRecord(pat, i) ==
    CASE pat = "small" ->
           [id |-> i, filename |-> i, type |-> "email",
            metaLen |-> 300, bodyLen |-> 1000]
      [] pat = "big" ->
           [id |-> IF i >= 2 THEN i + 1 ELSE i, filename |-> 100 + i,
            type |-> "attachment", metaLen |-> 300, bodyLen |-> 60000]
      [] OTHER ->
           IF i = 1 THEN [id |-> 1, filename |-> 201, type |-> "email",
                          metaLen |-> 300, bodyLen |-> 99500]
           ELSE IF i = 2 THEN [id |-> 2, filename |-> 202, type |-> "attachment",
                               metaLen |-> 700, bodyLen |-> 400]
           ELSE [id |-> i, filename |-> 200 + i, type |-> "email",
                 metaLen |-> 300, bodyLen |-> 100]

\* what loadAllFolder can return for the folders considered
StoreCorpora ==
    { [i \in 1..n |-> StoreRecord(pat, i)] : n \in StoreSizes, pat \in StorePatterns }

ATTACHMENT_PREVIEW == 200

EMAIL_PREVIEW == 150

IndexEntryWithBody(r) ==
    [id |-> r.id, filename |-> r.filename, type |-> r.type,
     previewLen |-> r.bodyLen, chars |-> r.bodyLen, body |-> r.bodyLen]

\* one entry of buildIndex: id, filename, type, a preview of the body (its
\* length) and the body's length; no body field
IndexEntry(r) ==
    [id |-> r.id, filename |-> r.filename, type |-> r.type,
     previewLen |-> Min(r.bodyLen,
                        IF r.type = "attachment" THEN ATTACHMENT_PREVIEW
                        ELSE EMAIL_PREVIEW),
     chars |-> r.bodyLen]

buildIndex(records) == [i \in 1..Len(records) |-> IndexEntry(records[i])]

\* app.listen callback: if All/ exists, ALL_RECORDS = await loadAllFolder(..);
\* INDEX = buildIndex(ALL_RECORDS). Requests are served while it runs.
AutoLoad ==
    /\ ~booted
    /\ booted' = TRUE
    /\ \/ \E records \in StoreCorpora :
             /\ ALL_RECORDS' = records
             /\ INDEX' = buildIndex(records)
       \/ UNCHANGED <<ALL_RECORDS, INDEX>>      \* All/ does not exist
    /\ UNCHANGED <<chunkWorld, apiKey, pc, ask, calls, resp, mr, unitWorld>>

\* app.post("/api/load"): the store and the index are replaced together when
\* loadAllFolder has returned (the handler's own response is not state)
ApiLoad ==
    /\ \E records \in StoreCorpora :
          /\ ALL_RECORDS' = records
          /\ INDEX' = buildIndex(records)
    /\ UNCHANGED <<booted, chunkWorld, apiKey, pc, ask, calls, resp, mr, unitWorld>>

\* ----------------------------------- index/select server: selection parsing

Digits == {"0", "1", "2", "3", "4", "5", "6", "7", "8", "9"}

DigitVal(c) ==
    CASE c = "0" -> 0 [] c = "1" -> 1 [] c = "2" -> 2 [] c = "3" -> 3
      [] c = "4" -> 4 [] c = "5" -> 5 [] c = "6" -> 6 [] c = "7" -> 7
      [] c = "8" -> 8 [] OTHER -> 9

\* the character class [\d\s,]
ListChar(c) == c \in Digits \cup {" ", ","}

RECURSIVE RunEnd(_, _)
\* the first position from j on whose character is outside [\d\s,]
RunEnd(s, j) == IF j > Len(s) \/ ~ListChar(s[j]) THEN j ELSE RunEnd(s, j + 1)

\* /\[[\d\s,]+\]/ matches at position i
MatchAt(s, i) ==
    /\ s[i] = "["
    /\ LET e == RunEnd(s, i + 1) IN e > i + 1 /\ e <= Len(s) /\ s[e] = "]"

\* pickResponse.match(/\[[\d\s,]+\]/): the leftmost match, <<>> for null
FirstListMatch(s) ==
    IF \E i \in 1..Len(s) : MatchAt(s, i)
    THEN LET i == CHOOSE i \in 1..Len(s) :
                      MatchAt(s, i) /\ \A k \in 1..(i - 1) : ~MatchAt(s, k)
         IN SubSeq(s, i, RunEnd(s, i + 1))
    ELSE <<>>

RECURSIVE NumVal(_)
\* the value of a digit sequence
NumVal(ds) ==
    IF ds = <<>> THEN 0 ELSE 10 * NumVal(SubSeq(ds, 1, Len(ds) - 1)) + DigitVal(ds[Len(ds)])

RECURSIVE ParseItems(_, _, _, _)
\* JSON.parse of an array of numbers, after its "[": st is what was read last
\* ("open", "num", "after" a number and white space, "comma"), cur the digits
\* of the number being read, acc the numbers read. ok = FALSE is a SyntaxError.
ParseItems(s, st, cur, acc) ==
    IF s = <<>> THEN [ok |-> FALSE, ids |-> <<>>]
    ELSE LET c == Head(s)
             rest == Tail(s)
         IN CASE c = "]" ->
                   IF rest # <<>> \/ st = "comma" THEN [ok |-> FALSE, ids |-> <<>>]
                   ELSE IF st = "num" THEN [ok |-> TRUE, ids |-> Append(acc, NumVal(cur))]
                   ELSE [ok |-> TRUE, ids |-> acc]
              [] c = " " ->
                   IF st = "num" THEN ParseItems(rest, "after", <<>>, Append(acc, NumVal(cur)))
                   ELSE ParseItems(rest, st, cur, acc)
              [] c = "," ->
                   IF st = "num" THEN ParseItems(rest, "comma", <<>>, Append(acc, NumVal(cur)))
                   ELSE IF st = "after" THEN ParseItems(rest, "comma", <<>>, acc)
                   ELSE [ok |-> FALSE, ids |-> <<>>]
              [] c \in Digits ->
                   IF st = "after" \/ (st = "num" /\ cur = <<"0">>)
                   THEN [ok |-> FALSE, ids |-> <<>>]
                   ELSE ParseItems(rest, "num", Append(cur, c), acc)
              [] OTHER -> [ok |-> FALSE, ids |-> <<>>]

\* JSON.parse(match[0])
JSONParseArray(m) ==
    IF m = <<>> \/ Head(m) # "[" THEN [ok |-> FALSE, ids |-> <<>>]
    ELSE ParseItems(Tail(m), "open", <<>>, <<>>)

\* let selectedIds = []; try { match ...; if (match) selectedIds =
\* JSON.parse(match[0]) } catch (_e) {}
ParsedSelection(pickResponse) ==
    LET m == FirstListMatch(pickResponse)
    IN IF m = <<>> THEN <<>>
       ELSE LET p == JSONParseArray(m) IN IF p.ok THEN p.ids ELSE <<>>

DEFAULT_SELECTION == 15

DefaultSelectionUnsliced(records) == [i \in 1..Len(records) |-> records[i].id]

\* ALL_RECORDS.slice(0, 15).map((r) => r.id)
DefaultSelection(records) ==
    [i \in 1..Min(Len(records), DEFAULT_SELECTION) |-> records[i].id]

\* selectedIds after the fallback: if (selectedIds.length === 0) ...
SelectedIds(pickResponse, records) ==
    LET parsed == ParsedSelection(pickResponse)
    IN IF Len(parsed) = 0 THEN DefaultSelection(records) ELSE parsed

\* selectedIds.includes(r.id)
Includes(ids, id) == \E k \in 1..Len(ids) : ids[k] = id

SelectedFirstOnly(records, selectedIds) ==
    LET all == SelectSeq(records, LAMBDA r : \E k \in 1..Len(selectedIds) : selectedIds[k] = r.id)
    IN IF all = <<>> THEN <<>> ELSE <<Head(all)>>

\* ALL_RECORDS.filter((r) => selectedIds.includes(r.id))
Selected(records, selectedIds) ==
    SelectSeq(records, LAMBDA r : Includes(selectedIds, r.id))

\* ------------------------------------- index/select server: context assembly

TOKEN_BUDGET == 25000

CHARS_PER_TOKEN == 4

CHAR_BUDGET == TOKEN_BUDGET * CHARS_PER_TOKEN

\* "...[truncated]".length
TRUNCATION_MARKER == 14

\* Math.max(500, CHAR_BUDGET - charCount - 200)
MIN_CUT == 500

CUT_RESERVE == 200

\* JSON.stringify(r).length
LineLen(r) == r.metaLen + r.bodyLen

OverBudgetNever(charCount, lineLen) == FALSE

\* if (charCount + line.length > CHAR_BUDGET)
OverBudget(charCount, lineLen) == charCount + lineLen > CHAR_BUDGET

\* r.body.slice(0, Math.max(500, CHAR_BUDGET - charCount - 200)).length
CutBodyLen(r, charCount) ==
    Min(r.bodyLen, Max(MIN_CUT, CHAR_BUDGET - charCount - CUT_RESERVE))

\* context += line + "\n": the record whole
WholeEntry(r) ==
    [id |-> r.id, filename |-> r.filename, truncated |-> FALSE,
     bodyLen |-> r.bodyLen, len |-> LineLen(r) + 1]

\* context += JSON.stringify({...r, body: cut + "...[truncated]"}) + "\n"
TrimmedEntry(r, charCount) ==
    LET cut == CutBodyLen(r, charCount) + TRUNCATION_MARKER
    IN [id |-> r.id, filename |-> r.filename, truncated |-> TRUE,
        bodyLen |-> cut, len |-> r.metaLen + cut + 1]

AfterCutContinue(rest) == rest

\* break: the records after the cut are not visited
AfterCut(rest) == <<>>

RECURSIVE Assemble(_, _, _)
\* for (const r of selected) { ... }: the context as the list of its lines
Assemble(selected, context, charCount) ==
    IF selected = <<>> THEN context
    ELSE LET r == Head(selected)
         IN IF OverBudget(charCount, LineLen(r))
            THEN Assemble(AfterCut(Tail(selected)),
                          Append(context, TrimmedEntry(r, charCount)), charCount)
            ELSE Assemble(Tail(selected), Append(context, WholeEntry(r)),
                          charCount + LineLen(r))

UsedFilesIncluded(selected, context) == [k \in 1..Len(context) |-> context[k].filename]

\* selected.map((r) => r.filename).join(", "), as the list of names
UsedFiles(selected, context) == [k \in 1..Len(selected) |-> selected[k].filename]

\* --------------------------------------------- remote model endpoint (fetch)

\* first-pass completions: prose, no content, "[ ]", "[1,,2]", "[1]",
\* "x[2,1]x", "[1,2,3]", "[99]", "[x][3]", "[2]"
PickResponses ==
    { <<"x">>,
      <<>>,
      <<"[", " ", "]">>,
      <<"[", "1", ",", ",", "2", "]">>,
      <<"[", "1", "]">>,
      <<"x", "[", "2", ",", "1", "]", "x">>,
      <<"[", "1", ",", "2", ",", "3", "]">>,
      <<"[", "9", "9", "]">>,
      <<"[", "x", "]", "[", "3", "]">>,
      <<"[", "2", "]">> }

\* second-pass completions: some text, or no content
Answers == { <<"A">>, <<>> }

\* non-success responses: status and body text
Failures ==
    { [kind |-> "http", status |-> 429, text |-> "quota", content |-> <<>>],
      [kind |-> "http", status |-> 500, text |-> "oops", content |-> <<>>] }

\* fetch rejects (no response at all)
Rejected == [kind |-> "reject", status |-> 0, text |-> "fetch failed", content |-> <<>>]

Ok(content) == [kind |-> "ok", status |-> 200, text |-> "", content |-> content]

Pending == [kind |-> "pending", status |-> 0, text |-> "", content |-> <<>>]

\* what the endpoint can do with a request whose completions are contents
Outcomes(contents) == {Ok(c) : c \in contents} \cup Failures \cup {Rejected}

LLMErrorGeneric(outcome) == <<"Ask failed.">>

\* throw new Error(`LLM error: ${resp.status} ${text}`); a rejected fetch
\* throws its own message
LLMError(outcome) ==
    IF outcome.kind = "http" THEN <<"LLM error", outcome.status, outcome.text>>
    ELSE <<outcome.text>>

\* ---------------------------------------------------- /api/ask (both variants)

NoResp == [status |-> 0, body |-> <<>>]

NoAsk ==
    [variant |-> "none", question |-> "", checkedLen |-> 0, pickResponse |-> <<>>,
     selectedIds |-> <<>>, selected |-> <<>>, context |-> <<>>]

Questions == {"", "q"}

NoQuestionNever(question) == FALSE

\* if (!question)
NoQuestion(question) == question = ""

NoRecordsNever(n) == FALSE

\* if (ALL_RECORDS.length === 0) / (!Array.isArray(records) || records.length === 0)
NoRecords(n) == n <= 0

MissingKeyNever(key) == FALSE

\* const apiKey = process.env.OPENAI_API_KEY; if (!apiKey)
MissingKey(key) == ~key

\* res.status(status).json(body), ending the request
Respond(status, body) ==
    /\ resp' = [status |-> status, body |-> body]
    /\ pc' = "done"

CallLLMTwice(log, kind, payload, at) ==
    IF ~apiKey
    THEN /\ Respond(500, [error |-> <<"No OPENAI_API_KEY set in .env">>])
         /\ calls' = log
    ELSE /\ calls' = Append(Append(log, [kind |-> kind, payload |-> payload,
                                         outcome |-> [kind |-> "ok", status |-> 200,
                                                      text |-> "", content |-> <<>>]]),
                            [kind |-> kind, payload |-> payload,
                             outcome |-> [kind |-> "pending", status |-> 0,
                                          text |-> "", content |-> <<>>]])
         /\ pc' = at
         /\ resp' = NoResp

\* callLLM up to its await fetch(...): throws without a credential (caught by
\* the handler: 500), else the request is sent and the handler is suspended
CallLLM(log, kind, payload, at) ==
    IF ~apiKey
    THEN /\ Respond(500, [error |-> <<"No OPENAI_API_KEY set in .env">>])
         /\ calls' = log
    ELSE /\ calls' = Append(log, [kind |-> kind, payload |-> payload, outcome |-> Pending])
         /\ pc' = at
         /\ resp' = NoResp

\* the outcome of the last request sent, recorded when the fetch settles
Settled(outcome) == [calls EXCEPT ![Len(calls)].outcome = outcome]

\* app.post("/api/ask") of the index/select server, up to its first await
AskStart ==
    /\ pc \in {"idle", "done"}
    /\ \E question \in Questions :
          /\ ask' = [NoAsk EXCEPT !.variant = "index", !.question = question,
                                  !.checkedLen = Len(ALL_RECORDS)]
          /\ IF NoQuestion(question)
             THEN Respond(400, [error |-> <<"No question provided.">>]) /\ calls' = <<>>
             ELSE IF NoRecords(Len(ALL_RECORDS))
             THEN Respond(400, [error |-> <<"No data loaded.">>]) /\ calls' = <<>>
             ELSE IF MissingKey(apiKey)
             THEN /\ Respond(200, [answer |->
                        <<"No OPENAI_API_KEY set in .env. Add your key and restart.">>])
                  /\ calls' = <<>>
             ELSE CallLLM(<<>>, "select", INDEX, "pass1")
    /\ UNCHANGED <<ALL_RECORDS, INDEX, booted, apiKey, chunkWorld, mr, unitWorld>>

\* the first callLLM settles: on success the selection is parsed, the selected
\* records are resolved against ALL_RECORDS, the context is assembled and the
\* second callLLM is sent
AskPicked ==
    /\ pc = "pass1"
    /\ \E outcome \in Outcomes(PickResponses) :
          IF outcome.kind # "ok"
          THEN /\ calls' = Settled(outcome)
               /\ Respond(500, [error |-> LLMError(outcome)])
               /\ UNCHANGED ask
          ELSE LET selectedIds == SelectedIds(outcome.content, ALL_RECORDS)
                   selected == Selected(ALL_RECORDS, selectedIds)
                   context == Assemble(selected, <<>>, 0)
               IN /\ ask' = [ask EXCEPT !.pickResponse = outcome.content,
                                        !.selectedIds = selectedIds,
                                        !.selected = selected,
                                        !.context = context]
                  /\ CallLLM(Settled(outcome), "answer", context, "pass2")
    /\ UNCHANGED <<ALL_RECORDS, INDEX, booted, apiKey, chunkWorld, mr, unitWorld>>

\* the second callLLM settles: res.json({ answer, filesUsed }) or the catch
AskAnswered ==
    /\ pc = "pass2"
    /\ \E outcome \in Outcomes(Answers) :
          /\ calls' = Settled(outcome)
          /\ IF outcome.kind # "ok"
             THEN Respond(500, [error |-> LLMError(outcome)])
             ELSE Respond(200, [answer |-> outcome.content,
                                filesUsed |-> UsedFiles(ask.selected, ask.context)])
    /\ UNCHANGED <<ALL_RECORDS, INDEX, booted, apiKey, chunkWorld, ask, mr, unitWorld>>

\* ------------------------------------------- /api/ask, records-in-request

\* records.slice(0, 80)
RECORDS_CAP == 80

\* req.body.records: not an array (-1), or an array of so many records
RequestRecords == {-1, 0, 2, 81}

\* app.post("/api/ask") of the first server, up to its await fetch(...)
Ask1Start ==
    /\ pc \in {"idle", "done"}
    /\ \E question \in Questions, n \in RequestRecords :
          /\ ask' = [NoAsk EXCEPT !.variant = "records", !.question = question,
                                  !.checkedLen = Max(n, 0)]
          /\ IF NoQuestion(question)
             THEN Respond(400, [error |-> <<"No question provided.">>]) /\ calls' = <<>>
             ELSE IF NoRecords(n)
             THEN Respond(400, [error |-> <<"No records loaded.">>]) /\ calls' = <<>>
             ELSE IF MissingKey(apiKey)
             THEN /\ Respond(200, [answer |-> <<"No OPENAI_API_KEY set in .env", n>>])
                  /\ calls' = <<>>
             ELSE /\ calls' = <<[kind |-> "ask", payload |-> Min(n, RECORDS_CAP),
                                 outcome |-> Pending]>>
                  /\ pc' = "ask1"
                  /\ resp' = NoResp
    /\ UNCHANGED <<ALL_RECORDS, INDEX, booted, apiKey, chunkWorld, mr, unitWorld>>

\* the fetch settles
Ask1Answered ==
    /\ pc = "ask1"
    /\ \E outcome \in Outcomes(Answers) :
          /\ calls' = Settled(outcome)
          /\ IF outcome.kind # "ok"
             THEN Respond(500, [error |-> LLMError(outcome)])
             ELSE Respond(200, [answer |-> IF outcome.content = <<>>
                                           THEN <<"No answer returned.">>
                                           ELSE outcome.content])
    /\ UNCHANGED <<ALL_RECORDS, INDEX, booted, apiKey, chunkWorld, ask, mr, unitWorld>>

\* the state of the chunks server, not part of the ask servers
ChunksUnused ==
    /\ CHUNKS = <<>>
    /\ chunksResp = [status |-> 0]

AskInit ==
    /\ ALL_RECORDS = <<>>
    /\ INDEX = <<>>
    /\ booted = FALSE
    /\ apiKey \in BOOLEAN
    /\ pc = "idle"
    /\ ask = NoAsk
    /\ calls = <<>>
    /\ resp = NoResp
    /\ ChunksUnused
    /\ mr = NoRun
    /\ UnitUnused

AskNext ==
    \/ AutoLoad
    \/ ApiLoad
    \/ AskStart
    \/ AskPicked
    \/ AskAnswered
    \/ Ask1Start
    \/ Ask1Answered

SpecAsk == AskInit /\ [][AskNext]_vars

\* -------------------------------------------------- map-reduce orchestrator
\* The orchestrator that consumes GET /api/chunks is not among the
\* repository's files at hand; it is modelled from the design (sections 4.9
\* and 5): one call per chunk in order, the sentinel for "nothing relevant",
\* a fixed pause and a retry of the same chunk on a rate-limit failure with
\* no cap, other failures recorded inline, then "nothing found" or one
\* merging call.

\* longest record list loaded for a map-reduce run
MaxRunRecords == 3

\* retries of one chunk are counted up to this number (they are not capped)
MaxCounted == 3

RunShapes ==
    { [type |-> "email",      metaLen |-> 29500, bodyLen |-> 800],
      [type |-> "attachment", metaLen |-> 6000,  bodyLen |-> 5000] }

RunCorpora ==
    UNION { { [i \in 1..n |-> MkRecord(f[i], i)] : f \in [1..n -> RunShapes] }
            : n \in 0..MaxRunRecords }

RunAutoLoad == AutoLoadFrom(RunCorpora)

\* what a per-chunk call can yield: a partial answer, the sentinel, a
\* rate-limit failure, another failure
ChunkOutcomes == {"partial", "sentinel", "ratelimit", "error"}

MayRetryCapped(attempts) == attempts < 2

\* a rate-limited chunk is retried whatever the number of attempts so far
MayRetry(attempts) == TRUE

\* the chunks the orchestrator works through: those of the last response
RunChunks == IF chunksResp.status = 200 THEN Len(chunksResp.chunks) ELSE 0

\* a question is asked: without a credential the placeholder answer, else the
\* call for the first chunk
RunStart ==
    /\ mr.pc \in {"idle", "done"}
    /\ chunksResp.status = 200
    /\ mr' = IF ~apiKey
             THEN [NoRun EXCEPT !.pc = "done", !.answer = "placeholder"]
             ELSE [NoRun EXCEPT !.pc = "calling", !.idx = 1, !.attempts = 1]
    /\ UNCHANGED <<ALL_RECORDS, booted, chunkWorld, askWorld, unitWorld>>

\* the call for chunk mr.idx settles
RunReply ==
    /\ mr.pc = "calling"
    /\ \E outcome \in ChunkOutcomes :
          IF outcome = "ratelimit" /\ MayRetry(mr.attempts)
          THEN mr' = [mr EXCEPT !.pc = "backoff", !.last = outcome]
          ELSE LET results == Append(mr.results,
                                     IF outcome = "ratelimit" THEN "error" ELSE outcome)
                   partials == {k \in 1..Len(results) : results[k] = "partial"}
               IN mr' = [mr EXCEPT
                           !.last = outcome,
                           !.results = results,
                           !.pc = IF mr.idx < RunChunks
                                  THEN (IF outcome = "error" THEN "calling" ELSE "pausing")
                                  ELSE IF partials = {} THEN "done" ELSE "merging",
                           !.idx = IF mr.idx < RunChunks /\ outcome = "error"
                                   THEN mr.idx + 1 ELSE mr.idx,
                           !.attempts = IF mr.idx < RunChunks /\ outcome = "error"
                                        THEN 1 ELSE mr.attempts,
                           !.answer = IF mr.idx = RunChunks /\ partials = {}
                                      THEN "nothing found" ELSE "none"]
    /\ UNCHANGED <<ALL_RECORDS, booted, chunkWorld, askWorld, unitWorld>>

\* the fixed pause after a rate-limit failure ends: the same chunk is sent again
RunRetry ==
    /\ mr.pc = "backoff"
    /\ mr' = [mr EXCEPT !.pc = "calling",
                        !.attempts = Min(mr.attempts + 1, MaxCounted)]
    /\ UNCHANGED <<ALL_RECORDS, booted, chunkWorld, askWorld, unitWorld>>

\* the pause after a successful call ends: the next chunk is sent
RunAdvance ==
    /\ mr.pc = "pausing"
    /\ mr' = [mr EXCEPT !.pc = "calling", !.idx = mr.idx + 1, !.attempts = 1]
    /\ UNCHANGED <<ALL_RECORDS, booted, chunkWorld, askWorld, unitWorld>>

\* the merging call settles
RunMerged ==
    /\ mr.pc = "merging"
    /\ \E outcome \in {"merged", "error"} :
          mr' = [mr EXCEPT !.pc = "done", !.last = outcome, !.answer = outcome]
    /\ UNCHANGED <<ALL_RECORDS, booted, chunkWorld, askWorld, unitWorld>>

RunInit ==
    /\ ALL_RECORDS = <<>>
    /\ CHUNKS = <<>>
    /\ booted = FALSE
    /\ chunksResp = [status |-> 0]
    /\ INDEX = <<>>
    /\ apiKey \in BOOLEAN
    /\ pc = "idle"
    /\ ask = <<>>
    /\ calls = <<>>
    /\ resp = [status |-> 0, body |-> <<>>]
    /\ mr = NoRun
    /\ UnitUnused

RunNext ==
    \/ RunAutoLoad
    \/ GetChunks
    \/ RunStart
    \/ RunReply
    \/ RunRetry
    \/ RunAdvance
    \/ RunMerged

SpecMapReduce == RunInit /\ [][RunNext]_vars

\* ------------------------------------------------------- chunker: claims

\* the budget buildChunks works against for the loaded records
ChunkBudget == ChunkSize(Compacted(ALL_RECORDS))

\* the number of records of each chunk, in chunk order
ChunkCounts == [k \in 1..Len(CHUNKS) |-> Len(CHUNKS[k])]

\* the serialized lengths of the loaded records, in order
LineLens == [i \in 1..Len(ALL_RECORDS) |-> CompactLine(ALL_RECORDS[i]).len]

\* C1: no chunk is longer than the budget unless it is a single record that
\* alone exceeds it, and every record longer than the budget is a whole
\* chunk of its own (neither dropped nor split).
C1_ChunkWithinBudget ==
    /\ \A k \in 1..Len(CHUNKS) :
          \/ SumLen(CHUNKS[k]) <= ChunkBudget
          \/ Len(CHUNKS[k]) = 1 /\ CHUNKS[k][1].len > ChunkBudget
    /\ \A i \in 1..Len(ALL_RECORDS) :
          CompactLine(ALL_RECORDS[i]).len > ChunkBudget
              => \E k \in 1..Len(CHUNKS) : CHUNKS[k] = <<CompactLine(ALL_RECORDS[i])>>

\* a load whose chunks include a lone over-budget record and a chunk of
\* several records
C1_Witness ==
    /\ booted
    /\ \E k \in 1..Len(CHUNKS) : Len(CHUNKS[k]) = 1 /\ CHUNKS[k][1].len > ChunkBudget
    /\ \E k \in 1..Len(CHUNKS) : Len(CHUNKS[k]) >= 2

\* C2: the chunks concatenated in order are exactly the serialized input
\* records, every chunk is non-empty, and no records give no chunks.
C2_ChunksPartitionInput ==
    /\ Flatten(CHUNKS) = Compacted(ALL_RECORDS)
    /\ \A k \in 1..Len(CHUNKS) : Len(CHUNKS[k]) > 0
    /\ (ALL_RECORDS = <<>> => CHUNKS = <<>>)

\* a load of several records split into several chunks, one of them with
\* more than one record
C2_Witness ==
    /\ booted
    /\ Len(ALL_RECORDS) >= 4
    /\ Len(CHUNKS) >= 2
    /\ \E k \in 1..Len(CHUNKS) : Len(CHUNKS[k]) >= 2

\* five records of 30,000 serialized chars each
FiveOfThirtyThousand == LineLens = <<30000, 30000, 30000, 30000, 30000>>

\* C3 as stated: greedy fill, and five records of 30,000 chars are chunked
\* 2, 2, 1 against a budget of 80,000.
C3_ScenarioAsStated ==
    FiveOfThirtyThousand => ChunkBudget = 80000 /\ ChunkCounts = <<2, 2, 1>>

\* C3 amended: a chunk is closed only when the next record would take the
\* non-empty current chunk over the budget, the budget being
\* ceil(total serialized length / TARGET_CHUNKS); five records of 30,000
\* chars get the budget 50,000 and five one-record chunks.
C3_GreedyAgainstDerivedBudget ==
    /\ \A k \in 1..(Len(CHUNKS) - 1) :
          SumLen(CHUNKS[k]) + CHUNKS[k + 1][1].len > ChunkBudget
    /\ FiveOfThirtyThousand =>
          ChunkBudget = 50000 /\ ChunkCounts = <<1, 1, 1, 1, 1>>

\* the five records of 30,000 chars are loaded
C3_Witness == booted /\ FiveOfThirtyThousand /\ Len(CHUNKS) = 5

\* ------------------------------------------------------ /api/ask: claims

\* the first-pass completions of PickResponses that hold no parseable
\* bracketed integer list: prose, no content, "[ ]" (parses to the empty
\* list) and "[1,,2]" (malformed)
UnparseablePicks ==
    { <<"x">>, <<>>, <<"[", " ", "]">>, <<"[", "1", ",", ",", "2", "]">> }

\* the ids of the first 15 records of the store, in store order
FirstFifteenIds ==
    [i \in 1..(IF Len(ALL_RECORDS) < 15 THEN Len(ALL_RECORDS) ELSE 15) |->
        ALL_RECORDS[i].id]

\* C4: when the first-pass response holds no parseable bracketed integer
\* list and the store is non-empty, the step that parses it selects the ids
\* of the first 15 records of the store, in store order, a non-empty list.
C4_FallbackSelectsFirstK ==
    [][ (/\ pc = "pass1"
         /\ pc' = "pass2"
         /\ ask'.pickResponse \in UnparseablePicks
         /\ ALL_RECORDS # <<>>)
        => (ask'.selectedIds = FirstFifteenIds /\ ask'.selectedIds # <<>>) ]_vars

\* the fallback was taken over a store of more than 15 records
C4_Witness ==
    /\ pc = "pass2"
    /\ ask.pickResponse = <<"[", "1", ",", ",", "2", "]">>
    /\ Len(ask.selectedIds) = 15
    /\ Len(ask.selected) = 15

\* the request in flight has assembled its second-pass context
ContextAssembled == pc \in {"pass2", "done"} /\ ask.variant = "index" /\ Len(calls) = 2

RECURSIVE WholeLen(_, _)
\* the serialized length of the first k selected records, whole
WholeLen(selected, k) ==
    IF k = 0 THEN 0 ELSE WholeLen(selected, k - 1) + LineLen(selected[k])

\* C5: the context holds the selected records in order, whole while the
\* running count stays within the budget; the first record that would take
\* it over is included cut to at most max(500, budget - count - 200) body
\* chars with the marker appended, and nothing follows it: a truncated
\* record is the last one, and a selected record is missing from the context
\* only after a truncated one.
C5_CutThenStop ==
    ContextAssembled =>
        LET sel == ask.selected
            ctx == ask.context
        IN /\ Len(ctx) <= Len(sel)
           /\ \A k \in 1..Len(ctx) :
                 /\ ctx[k].id = sel[k].id
                 /\ ctx[k].filename = sel[k].filename
                 /\ ctx[k].truncated <=> (WholeLen(sel, k) > CHAR_BUDGET)
                 /\ ~ctx[k].truncated => ctx[k].bodyLen = sel[k].bodyLen
                 /\ ctx[k].truncated =>
                       /\ k = Len(ctx)
                       /\ LET room == CHAR_BUDGET - WholeLen(sel, k - 1) - 200
                              cut == IF room > 500 THEN room ELSE 500
                          IN ctx[k].bodyLen =
                                (IF sel[k].bodyLen < cut THEN sel[k].bodyLen ELSE cut) + 14
           /\ Len(ctx) < Len(sel) => Len(ctx) > 0 /\ ctx[Len(ctx)].truncated
           /\ ctx = calls[2].payload

\* a context of a whole record, then a truncated one, with selected records
\* dropped after the cut
C5_Witness ==
    /\ ContextAssembled
    /\ Len(ask.context) = 2
    /\ ~ask.context[1].truncated
    /\ ask.context[2].truncated
    /\ Len(ask.selected) > 2

\* C6: filesUsed of a successful select-then-answer response names exactly
\* the records included in the context sent to the model.
C6_FilesUsedAreIncluded ==
    (/\ pc = "done"
     /\ ask.variant = "index"
     /\ resp.status = 200
     /\ "filesUsed" \in DOMAIN resp.body)
    => resp.body.filesUsed = [k \in 1..Len(ask.context) |-> ask.context[k].filename]

\* the labels of the placeholder answers
PlaceholderLabels ==
    { "No OPENAI_API_KEY set in .env. Add your key and restart.",
      "No OPENAI_API_KEY set in .env" }

\* C7: without a credential, a request with a question and a non-empty
\* corpus ends with a 200 response whose only field is the placeholder
\* answer, and no request is sent to the model endpoint.
C7_PlaceholderWithoutKey ==
    (pc = "done" /\ ~apiKey /\ ask.question # "" /\ ask.checkedLen > 0)
    => /\ resp.status = 200
       /\ DOMAIN resp.body = {"answer"}
       /\ resp.body.answer # <<>>
       /\ resp.body.answer[1] \in PlaceholderLabels
       /\ calls = <<>>

\* such a request has been answered by the index/select server
C7_Witness ==
    /\ pc = "done"
    /\ ~apiKey
    /\ ask.variant = "index"
    /\ ask.question = "q"
    /\ ask.checkedLen > 0
    /\ resp.status = 200

\* the explicit rejections
RejectionMessages ==
    { <<"No question provided.">>, <<"No data loaded.">>, <<"No records loaded.">> }

\* C8: a request is sent to the model endpoint only for a non-empty question
\* and a store (or record list) that was non-empty when the request was
\* checked; a request without either ends with a 400 and an explicit error.
C8_RejectedBeforeModel ==
    /\ calls # <<>> => ask.question # "" /\ ask.checkedLen > 0
    /\ (pc = "done" /\ (ask.question = "" \/ ask.checkedLen = 0))
       => /\ resp.status = 400
          /\ DOMAIN resp.body = {"error"}
          /\ resp.body.error \in RejectionMessages
          /\ calls = <<>>

\* a question asked with the credential set, before the startup auto-load
\* has finished, was rejected
C8_Witness ==
    /\ pc = "done"
    /\ ~booted
    /\ apiKey
    /\ ask.variant = "index"
    /\ ask.question = "q"
    /\ ask.checkedLen = 0
    /\ resp.body = [error |-> <<"No data loaded.">>]

\* C9: in select-then-answer mode a call that gets a non-success response is
\* the last call of the request (a failed selection call is the only call),
\* and the request ends with a 500 whose only field is the error, carrying
\* the upstream status and body text.
C9_UpstreamFailureIsExplicit ==
    ask.variant = "index" =>
        \A k \in 1..Len(calls) :
            calls[k].outcome.kind = "http" =>
                /\ k = Len(calls)
                /\ pc = "done"
                /\ resp.status = 500
                /\ DOMAIN resp.body = {"error"}
                /\ resp.body.error =
                      <<"LLM error", calls[k].outcome.status, calls[k].outcome.text>>

\* the answer call failed after a successful selection call
C9_Witness ==
    /\ pc = "done"
    /\ ask.variant = "index"
    /\ Len(calls) = 2
    /\ calls[1].outcome.kind = "ok"
    /\ calls[2].outcome.kind = "http"
    /\ calls[2].outcome.status = 429

\* C12: the selected ids are resolved against the store as it is when the
\* first call settles, whatever index was sent: the selected records are
\* exactly the records of the current store whose id was selected, in store
\* order, and the index the model saw stays the one sent at the start.
C12_ResolvedAgainstCurrentStore ==
    [][ (pc = "pass1" /\ pc' = "pass2") =>
           LET sel == ask'.selected
               ids == ask'.selectedIds
               hit == {i \in 1..Len(ALL_RECORDS) :
                          \E k \in 1..Len(ids) : ids[k] = ALL_RECORDS[i].id}
           IN /\ Len(sel) = Cardinality(hit)
              /\ \A k \in 1..Len(sel) :
                    \E i \in hit :
                       /\ sel[k] = ALL_RECORDS[i]
                       /\ Cardinality({j \in hit : j < i}) = k - 1
              /\ calls'[1].payload = calls[1].payload ]_vars

\* a reload completed during the first call, and the request answered from,
\* and reported, a file that was not in the index the model saw
C12_Witness ==
    /\ pc = "done"
    /\ ask.variant = "index"
    /\ resp.status = 200
    /\ "filesUsed" \in DOMAIN resp.body
    /\ \E k \in 1..Len(ask.context) :
          \A i \in 1..Len(calls[1].payload) :
             calls[1].payload[i].filename # ask.context[k].filename
    /\ \E k \in 1..Len(resp.body.filesUsed) :
          \A i \in 1..Len(calls[1].payload) :
             calls[1].payload[i].filename # resp.body.filesUsed[k]

\* the same race leaving no record at all: a non-empty index was sent, the
\* model chose an id of it, and nothing was selected
C12_WitnessNoRecords ==
    /\ pc = "pass2"
    /\ ask.variant = "index"
    /\ ask.selected = <<>>
    /\ ask.context = <<>>
    /\ \E i \in 1..Len(calls[1].payload) :
          \E k \in 1..Len(ask.selectedIds) : calls[1].payload[i].id = ask.selectedIds[k]

\* C18: a successful select-then-answer request has sent exactly two
\* requests to the model endpoint, the selection call and then the answer
\* call, one request per call, the answer call carrying the assembled
\* context; no request is ever sent again.
C18_TwoCallsInOrder ==
    /\ ask.variant = "index" => Len(calls) <= 2
    /\ (/\ pc = "done"
        /\ ask.variant = "index"
        /\ resp.status = 200
        /\ "filesUsed" \in DOMAIN resp.body)
       => /\ Len(calls) = 2
          /\ calls[1].kind = "select"
          /\ calls[1].outcome.kind = "ok"
          /\ calls[2].kind = "answer"
          /\ calls[2].outcome.kind = "ok"
          /\ calls[2].payload = ask.context
    /\ \A k \in 1..Len(calls) : calls[k].outcome.kind = "pending" => k = Len(calls)

\* a successful request over a non-empty context
C18_Witness ==
    /\ pc = "done"
    /\ ask.variant = "index"
    /\ resp.status = 200
    /\ "filesUsed" \in DOMAIN resp.body
    /\ Len(ask.context) >= 2
    /\ resp.body.answer = <<"A">>

\* C20: INDEX has one entry per record of ALL_RECORDS, in the same order,
\* with the record's id and filename, a preview no longer than the body and
\* than 150 (email) or 200 (attachment) chars, the body's length, and no
\* body field.
C20_IndexMatchesStore ==
    /\ Len(INDEX) = Len(ALL_RECORDS)
    /\ \A i \in 1..Len(INDEX) :
          /\ INDEX[i].id = ALL_RECORDS[i].id
          /\ INDEX[i].filename = ALL_RECORDS[i].filename
          /\ INDEX[i].type = ALL_RECORDS[i].type
          /\ INDEX[i].previewLen <= ALL_RECORDS[i].bodyLen
          /\ INDEX[i].previewLen <= (IF ALL_RECORDS[i].type = "attachment" THEN 200 ELSE 150)
          /\ \/ INDEX[i].previewLen = ALL_RECORDS[i].bodyLen
             \/ INDEX[i].previewLen = (IF ALL_RECORDS[i].type = "attachment" THEN 200 ELSE 150)
          /\ INDEX[i].chars = ALL_RECORDS[i].bodyLen
          /\ "body" \notin DOMAIN INDEX[i]

\* a reloaded store with a body shorter than its preview cap, an email cut
\* to 150 and an attachment cut to 200, while a request is in flight
C20_Witness ==
    /\ booted
    /\ pc = "pass1"
    /\ INDEX # calls[1].payload
    /\ \E i \in 1..Len(INDEX) : INDEX[i].previewLen = 100
    /\ \E i \in 1..Len(INDEX) : INDEX[i].type = "email" /\ INDEX[i].previewLen = 150
    /\ \E i \in 1..Len(INDEX) : INDEX[i].type = "attachment" /\ INDEX[i].previewLen = 200

\* context.length: every line with its "\n"
ContextLen(context) == SumLen(context)

\* C21: the context sent in the answer call is never longer than CHAR_BUDGET
\* (100,000 characters), whatever the selection and the records' sizes, the
\* case of a truncated last record included.
C21_ContextWithinBudget ==
    ContextAssembled => ContextLen(ask.context) <= CHAR_BUDGET

\* what the loop's test does bound: the serialized lengths of the records
\* included whole, their line ends not counted
WholeRecordsWithinBudget ==
    ContextAssembled
    => SumLen(SelectSeq(ask.context, LAMBDA e : ~e.truncated))
         - Len(SelectSeq(ask.context, LAMBDA e : ~e.truncated)) <= CHAR_BUDGET

\* the budget is crossed by a truncated record whose cut is the whole body
\* (the floor of 500 is above what is left of the budget)
C21_OverBudgetByFloor ==
    /\ ContextAssembled
    /\ Len(ask.context) = 2
    /\ ask.context[2].truncated
    /\ ask.context[2].bodyLen = 400 + TRUNCATION_MARKER
    /\ ContextLen(ask.context) > CHAR_BUDGET

\* C22: whenever the store is non-empty when the first-pass reply arrives,
\* whatever that reply is (a well-formed id list naming no record of the
\* store included), the records resolved for the second pass are not none,
\* and the answer call is not sent over an empty context.
C22_AnswerCallHasRecords ==
    [][(pc = "pass1" /\ pc' = "pass2" /\ Len(ALL_RECORDS) > 0)
       => (Len(ask'.selected) > 0 /\ Len(ask'.context) > 0)]_vars

\* the fallback covers a reply without a usable list only: then some record
\* of a non-empty store is resolved
FallbackResolvesSome ==
    [][(/\ pc = "pass1" /\ pc' = "pass2" /\ Len(ALL_RECORDS) > 0
        /\ ParsedSelection(ask'.pickResponse) = <<>>)
       => (Len(ask'.selected) > 0 /\ Len(ask'.context) > 0)]_vars

\* an answer call sent with no record at all, over a store that has records
C22_EmptyContextSent ==
    /\ pc = "pass2"
    /\ ask.variant = "index"
    /\ Len(ALL_RECORDS) > 0
    /\ ask.selectedIds # <<>>
    /\ ask.selected = <<>>
    /\ calls[2].payload = <<>>

\* ------------------------------------------------------ map-reduce: claims

\* C10: chunks are sent one at a time in ascending order: a call is sent only
\* for chunk 1 of a new run, for the same chunk after a rate-limit pause, or
\* for chunk i+1 once chunks 1..i all have a result; a rate-limit failure
\* leads to the pause with the chunk and the results unchanged, whatever the
\* number of attempts, and the pause is followed only by a call for the same
\* chunk; while chunk i is in flight or paused exactly i-1 results exist.
C10_SequentialWithRetry ==
    [][ /\ (mr'.pc = "calling" /\ mr' # mr) =>
              \/ mr.pc \in {"idle", "done"} /\ mr'.idx = 1 /\ mr'.results = <<>>
              \/ mr.pc = "backoff" /\ mr'.idx = mr.idx /\ mr'.results = mr.results
              \/ /\ mr.pc \in {"calling", "pausing"}
                 /\ mr'.idx = mr.idx + 1
                 /\ Len(mr'.results) = mr.idx
                 /\ mr'.results[mr.idx] \in {"partial", "sentinel", "error"}
        /\ (mr.pc = "calling" /\ mr'.last = "ratelimit" /\ mr' # mr) =>
              mr'.pc = "backoff" /\ mr'.idx = mr.idx /\ mr'.results = mr.results
        /\ (mr.pc = "backoff" /\ mr' # mr) =>
              mr'.pc = "calling" /\ mr'.idx = mr.idx /\ mr'.results = mr.results
        /\ mr'.pc \in {"calling", "backoff"} =>
              Len(mr'.results) = mr'.idx - 1 /\ mr'.idx <= RunChunks
      ]_vars

\* the second chunk is being sent again after repeated rate-limit failures
C10_Witness ==
    /\ mr.pc = "calling"
    /\ mr.idx = 2
    /\ mr.attempts = MaxCounted
    /\ mr.last = "ratelimit"
    /\ Len(mr.results) = 1
    /\ RunChunks >= 3

\* ================================================================ sanitize
\* Texts are sequences of characters, each written as a string. The
\* characters that the code treats specially are named below; every other
\* string stands for printable ASCII or Latin letters, which all three
\* expressions of sanitize leave alone.

\* longest text given to sanitize
MaxText == 4

\* U+0000
NUL == "NUL"

\* U+00A0, no-break space: inside \u00A0-\u024F, and white space for trim()
NBSP == "NBSP"

\* characters outside \x09 \x0A \x0D \x20-\x7E \u00A0-\u024F: a form feed
\* (a control character) and a CJK ideograph
OutOfBand == {"\f", "CJK"}

\* the class [ \t] of the third replace
IsBlank(c) == c \in {" ", "\t"}

\* what String.prototype.trim removes, among the characters that survive the
\* second replace: tab, LF, CR, space, no-break space
IsWhiteSpace(c) == c \in {" ", "\t", "\n", "\r", NBSP}

\* text.replace(/\u0000/g, "")
DropNul(text) == SelectSeq(text, LAMBDA c : c # NUL)

\* .replace(/[^\x09\x0A\x0D\x20-\x7E\u00A0-\u024F]/g, " ")
BlankOutOfBand(text) ==
    [i \in 1..Len(text) |-> IF text[i] \in OutOfBand \cup {NUL} THEN " " ELSE text[i]]

RECURSIVE BlankRun(_)
\* the length of the run of [ \t] at the head of text
BlankRun(text) ==
    IF text # <<>> /\ IsBlank(Head(text)) THEN 1 + BlankRun(Tail(text)) ELSE 0

RECURSIVE Collapse(_)
\* .replace(/[ \t]{2,}/g, " "): every maximal run of two or more blanks
\* becomes one space; a lone blank stays what it is
Collapse(text) ==
    IF text = <<>> THEN <<>>
    ELSE LET n == BlankRun(text)
         IN IF n >= 2 THEN <<" ">> \o Collapse(SubSeq(text, n + 1, Len(text)))
            ELSE <<Head(text)>> \o Collapse(Tail(text))

RECURSIVE TrimStart(_)
TrimStart(text) ==
    IF text # <<>> /\ IsWhiteSpace(Head(text)) THEN TrimStart(Tail(text)) ELSE text

RECURSIVE TrimEnd(_)
TrimEnd(text) ==
    IF text # <<>> /\ IsWhiteSpace(text[Len(text)])
    THEN TrimEnd(SubSeq(text, 1, Len(text) - 1))
    ELSE text

\* String.prototype.trim
Trim(text) == TrimEnd(TrimStart(text))

sanitizeCollapseFirst(text) == Trim(BlankOutOfBand(Collapse(DropNul(text))))

\* sanitize: the three replaces in their order, then trim
sanitize(text) == Trim(Collapse(BlankOutOfBand(DropNul(text))))

\* NUL, a control character, tab, CR, LF, space, no-break space, printable
\* ASCII, a Latin-1 letter and a character outside the bands
SanitizeAlphabet == {NUL, "\f", "\t", "\r", "\n", " ", NBSP, "a", "eacute", "CJK"}

SanitizeInputs == UNION {[1..n -> SanitizeAlphabet] : n \in 0..MaxText}

\* the servers and the loader, not part of the text functions
ServersUnused ==
    /\ ALL_RECORDS = <<>>
    /\ booted = FALSE
    /\ ChunksUnused
    /\ AskUnused
    /\ mr = NoRun
    /\ loader = NoLoad
    /\ page = NoPage

serverWorld == <<ALL_RECORDS, booted, chunkWorld, askWorld, mr, loader, page>>

\* sanitize(x)
SanitizeOnce ==
    /\ output = <<>>
    /\ output' = <<sanitize(input)>>
    /\ UNCHANGED <<input, serverWorld>>

\* sanitize(sanitize(x))
SanitizeAgain ==
    /\ Len(output) = 1
    /\ output' = Append(output, sanitize(output[1]))
    /\ UNCHANGED <<input, serverWorld>>

SanitizeInit ==
    /\ input \in SanitizeInputs
    /\ output = <<>>
    /\ ServersUnused

SanitizeNext == SanitizeOnce \/ SanitizeAgain

SpecSanitize == SanitizeInit /\ [][SanitizeNext]_vars

\* ------------------------------------------------------- sanitize: claims

\* C17: sanitize is idempotent: applying it to its own result returns that
\* result unchanged.
C17_SanitizeIdempotent ==
    Len(output) = 2 => output[2] = output[1]

\* a text with a NUL between blanks and an out-of-band character, sanitized
\* twice to a non-empty result that differs from the input
C17_Witness ==
    /\ Len(output) = 2
    /\ output[1] # <<>>
    /\ output[1] # input
    /\ \E i \in 1..Len(input) : input[i] = NUL
    /\ \E i \in 1..Len(input) : input[i] \in OutOfBand
    /\ \E i \in 1..Len(input) : IsBlank(input[i])

\* ==================================================== extractText, parseEml
\* A message text is a sequence of tokens, each a string: a line break, a
\* space, the two dashes "--", a boundary, a whole header line, an HTML tag,
\* a word. Every function below does to the tokens what the code does to the
\* characters; the messages are well formed, so no delimiter starts or ends
\* inside a token.

\* the header lines of the messages, with the key and value parseHeaders
\* reads from each (key lower-cased, value trimmed) and the boundary
\* parameter the value carries
HeaderLines ==
    { [line |-> "Content-Type: text/plain", key |-> "content-type",
       value |-> "text/plain", boundary |-> ""],
      [line |-> "Content-Type: text/html", key |-> "content-type",
       value |-> "text/html", boundary |-> ""],
      [line |-> "Content-Type: application/pdf", key |-> "content-type",
       value |-> "application/pdf", boundary |-> ""],
      [line |-> "Content-Transfer-Encoding: base64", key |-> "content-transfer-encoding",
       value |-> "base64", boundary |-> ""],
      [line |-> "Content-Type: multipart/alternative; boundary=b1", key |-> "content-type",
       value |-> "multipart/alternative", boundary |-> "b1"],
      [line |-> "Content-Type: multipart/alternative; boundary=B1", key |-> "content-type",
       value |-> "multipart/alternative", boundary |-> "B1"],
      [line |-> "Content-Type: multipart/mixed; boundary=b2", key |-> "content-type",
       value |-> "multipart/mixed", boundary |-> "b2"],
      [line |-> "Content-Type: multipart/related; boundary=b3", key |-> "content-type",
       value |-> "multipart/related", boundary |-> "b3"] }

\* headers[key] || "": the value of a header that is absent
NoValue == [value |-> "", boundary |-> ""]

RECURSIVE IndexOf(_, _, _)
\* text.indexOf(sep), counted from position i; 0 when sep does not occur
IndexOf(text, sep, i) ==
    IF i + Len(sep) - 1 > Len(text) THEN 0
    ELSE IF SubSeq(text, i, i + Len(sep) - 1) = sep THEN i
    ELSE IndexOf(text, sep, i + 1)

RECURSIVE Split(_, _)
\* text.split(sep) for a non-empty sep
Split(text, sep) ==
    LET i == IndexOf(text, sep, 1)
    IN IF i = 0 THEN <<text>>
       ELSE <<SubSeq(text, 1, i - 1)>> \o Split(SubSeq(text, i + Len(sep), Len(text)), sep)

RECURSIVE Join(_, _)
\* texts.join(sep)
Join(texts, sep) ==
    IF texts = <<>> THEN <<>>
    ELSE IF Len(texts) = 1 THEN texts[1]
    ELSE texts[1] \o sep \o Join(Tail(texts), sep)

RECURSIVE HeaderValue(_, _)
\* the loop of parseHeaders for one key: the last line with that key wins; a
\* line without a colon is skipped (no line of the messages is folded)
HeaderValue(lines, key) ==
    IF lines = <<>> THEN NoValue
    ELSE LET last == lines[Len(lines)]
             hit == {h \in HeaderLines : <<h.line>> = last /\ h.key = key}
         IN IF hit # {}
            THEN LET h == CHOOSE h \in hit : TRUE
                 IN [value |-> h.value, boundary |-> h.boundary]
            ELSE HeaderValue(SubSeq(lines, 1, Len(lines) - 1), key)

\* parseHeaders: raw.split(/\r?\n/), then the two keys the decoder reads
parseHeaders(raw) ==
    LET lines == Split(raw, <<"\n">>)
    IN [contentType |-> HeaderValue(lines, "content-type"),
        encoding |-> HeaderValue(lines, "content-transfer-encoding")]

\* String.prototype.toLowerCase on a header value: the boundary parameter is
\* lower-cased with the rest of the value
toLowerCase(v) ==
    [value |-> v.value,
     boundary |-> IF v.boundary = "B1" THEN "b1" ELSE v.boundary]

\* text cut at the separator found at position at, or left whole
CutAt(text, at, sepLen) ==
    IF at = 0 THEN [rawHeaders |-> text, body |-> <<>>]
    ELSE [rawHeaders |-> SubSeq(text, 1, at - 1),
          body |-> SubSeq(text, at + sepLen, Len(text))]

\* splitHeaderBody: the first separator of "\r\n\r\n", "\n\n" that occurs
splitHeaderBody(text) ==
    IF IndexOf(text, <<"\r", "\n", "\r", "\n">>, 1) # 0
    THEN CutAt(text, IndexOf(text, <<"\r", "\n", "\r", "\n">>, 1), 4)
    ELSE CutAt(text, IndexOf(text, <<"\n", "\n">>, 1), 2)

\* Buffer.from(data, "base64").toString("utf8") on one run of base64
\* characters: the two encoded bodies of the messages, and undefined bytes
\* for any other text
Base64Decode(tok) ==
    IF tok = "SGk=" THEN <<"Hi">>
    ELSE IF tok = "JVBERi0=" THEN <<"%PDF-">>
    ELSE <<"GARBAGE">>

\* decodeBody: base64 after body.replace(/\s+/g, ""), anything else as it is
\* (no message here is quoted-printable)
decodeBody(body, headers) ==
    IF headers.encoding.value = "base64"
    THEN LET data == SelectSeq(body, LAMBDA c : ~IsWhiteSpace(c))
         IN Join([i \in 1..Len(data) |-> Base64Decode(data[i])], <<>>)
    ELSE body

\* the tags of the messages
HtmlTags == {"<p>", "</p>", "<br>", "<b>", "</b>", "<style>", "</style>", "<script>", "</script>"}

RECURSIVE DropBlocks(_, _, _)
\* .replace(/<open[\s\S]*?<\/close>/gi, " "): each block up to its first
\* closing tag becomes one space; an unclosed opening tag stays
DropBlocks(html, open, close) ==
    IF html = <<>> THEN <<>>
    ELSE IF Head(html) = open /\ IndexOf(html, <<close>>, 2) # 0
    THEN <<" ">> \o DropBlocks(SubSeq(html, IndexOf(html, <<close>>, 2) + 1, Len(html)), open, close)
    ELSE <<Head(html)>> \o DropBlocks(Tail(html), open, close)

\* .replace(/<br\s*\/?>/gi, "\n").replace(/<\/p>/gi, "\n")
BreaksToNewline(html) ==
    [i \in 1..Len(html) |-> IF html[i] \in {"<br>", "</p>"} THEN "\n" ELSE html[i]]

\* the first four replaces of stripHtml
BlocksAndBreaks(html) ==
    BreaksToNewline(DropBlocks(DropBlocks(html, "<style>", "</style>"), "<script>", "</script>"))

\* .replace(/<[^>]+>/g, " ")
TagsToSpace(html) == [i \in 1..Len(html) |-> IF html[i] \in HtmlTags THEN " " ELSE html[i]]

stripHtmlTagsToNothing(html) == SelectSeq(BlocksAndBreaks(html), LAMBDA c : c \notin HtmlTags)

\* stripHtml: style and script blocks to a space, <br> and </p> to a line
\* break, then every remaining tag to a space
stripHtml(html) == TagsToSpace(BlocksAndBreaks(html))

\* getBoundary: the boundary parameter of the value it is given
getBoundary(ct) == ct.boundary

\* ct.includes("multipart/")
IsMultipart(v) == v.value \in {"multipart/alternative", "multipart/mixed", "multipart/related"}

\* raw.replace(/--$/, "")
DropFinalDashes(raw) ==
    IF raw # <<>> /\ raw[Len(raw)] = "--" THEN SubSeq(raw, 1, Len(raw) - 1) ELSE raw

RECURSIVE extractText(_, _)

\* if (x.trim()) texts.push(x)
PushIfText(text) == IF Trim(text) # <<>> THEN <<text>> ELSE <<>>

\* (pH["content-type"] || "text/plain").toLowerCase()
PartType(pH) ==
    IF pH.contentType = NoValue THEN [value |-> "text/plain", boundary |-> ""]
    ELSE toLowerCase(pH.contentType)

\* one turn of the loop of extractText once the part's headers are parsed:
\* a multipart is extracted in turn, a part that is neither text/plain nor
\* text/html is skipped, a text part is decoded and, if html, stripped
PartWith(pb, pH, pType) ==
    IF IsMultipart(pType) THEN PushIfText(extractText(pb, pH))
    ELSE IF pType.value \notin {"text/plain", "text/html"} THEN <<>>
    ELSE IF pType.value = "text/html" THEN PushIfText(stripHtml(decodeBody(pb, pH)))
    ELSE PushIfText(decodeBody(pb, pH))

PartParsed(pb, pH) == PartWith(pb, pH, PartType(pH))

PartSplit(sp) == PartParsed(sp.body, parseHeaders(sp.rawHeaders))

\* if (!part) continue; then splitHeaderBody(part)
PartText(part) == IF part = <<>> THEN <<>> ELSE PartSplit(splitHeaderBody(part))

RECURSIVE PartTexts(_)
\* the loop of extractText over the fragments: the texts pushed, in order
PartTexts(parts) ==
    IF parts = <<>> THEN <<>>
    ELSE PartText(Trim(DropFinalDashes(Head(parts)))) \o PartTexts(Tail(parts))

\* body.split(marker).filter((p) => p.trim() && p.trim() !== "--")
Parts(body, marker) ==
    SelectSeq(Split(body, marker), LAMBDA p : Trim(p) # <<>> /\ Trim(p) # <<"--">>)

\* texts.length ? texts.join("\n\n") : decodeBody(body, headers)
JoinedOr(texts, body, headers) ==
    IF texts # <<>> THEN Join(texts, <<"\n", "\n">>) ELSE decodeBody(body, headers)

\* extractText once ct is known
ExtractWith(body, headers, ct) ==
    IF ~IsMultipart(ct) \/ getBoundary(ct) = ""
    THEN (IF ct.value = "text/html" THEN stripHtml(decodeBody(body, headers))
          ELSE decodeBody(body, headers))
    ELSE JoinedOr(PartTexts(Parts(body, <<"--", getBoundary(ct)>>)), body, headers)

\* extractText(body, headers)
extractText(body, headers) == ExtractWith(body, headers, toLowerCase(headers.contentType))

\* extractText as parseEml calls it on the two halves of the content
ExtractSplit(sp) == extractText(sp.body, parseHeaders(sp.rawHeaders))

\* parseEml: the body field of the record it returns
parseEml(content) ==
    [type |-> "email", body |-> sanitize(ExtractSplit(splitHeaderBody(content)))]

\* ----------------------------------------------------------- the messages
\* A message is written from a tree of parts: leaves of four kinds and
\* multiparts of up to three levels, the outer one declaring its boundary in
\* lower or in upper case.

\* most parts of an innermost multipart
InnerKids == 2

LeafKinds == {"plain", "html", "pdf", "encoded"}

Leaf(k) == [kind |-> k, boundary |-> "", parts |-> <<>>]

Multi(b, parts) == [kind |-> "multipart", boundary |-> b, parts |-> parts]

Leaves == {Leaf(k) : k \in LeafKinds}

\* no leaf or one leaf, beside the middle part of a multipart
OptLeaf == {<<>>} \cup {<<l>> : l \in Leaves}

\* the innermost multiparts: up to InnerKids unencoded leaves
Level3 ==
    {Multi("b3", ps) :
        ps \in UNION {[1..n -> {Leaf(k) : k \in {"plain", "html", "pdf"}}] : n \in 1..InnerKids}}

Level2 == {Multi("b2", pre \o <<mid>> \o post) :
              pre \in OptLeaf, mid \in Leaves \cup Level3, post \in OptLeaf}

Level1 == {Multi(b, pre \o <<mid>>) :
              b \in {"b1", "B1"}, pre \in OptLeaf, mid \in Leaves \cup Level2}

\* the header lines of a part
HeadersOf(node) ==
    IF node.kind = "plain" THEN <<"Content-Type: text/plain">>
    ELSE IF node.kind = "html" THEN <<"Content-Type: text/html">>
    ELSE IF node.kind = "pdf"
    THEN <<"Content-Type: application/pdf", "\n", "Content-Transfer-Encoding: base64">>
    ELSE IF node.kind = "encoded"
    THEN <<"Content-Type: text/plain", "\n", "Content-Transfer-Encoding: base64">>
    ELSE IF node.boundary = "b1" THEN <<"Content-Type: multipart/alternative; boundary=b1">>
    ELSE IF node.boundary = "B1" THEN <<"Content-Type: multipart/alternative; boundary=B1">>
    ELSE IF node.boundary = "b2" THEN <<"Content-Type: multipart/mixed; boundary=b2">>
    ELSE <<"Content-Type: multipart/related; boundary=b3">>

\* the content of a leaf as it is written in the message
LeafBody(node) ==
    IF node.kind = "plain" THEN <<"Plain", " ", "text">>
    ELSE IF node.kind = "html" THEN <<"<p>", "Rich", "</p>">>
    ELSE IF node.kind = "pdf" THEN <<"JVBERi0=">>
    ELSE <<"SGk=">>

RECURSIVE Render(_)
\* the text of a part: its header lines, an empty line, and its content; a
\* multipart's content is each part after a "--boundary" line, then the
\* closing "--boundary--" line
Render(node) ==
    HeadersOf(node) \o <<"\n", "\n">> \o
    (IF node.kind # "multipart" THEN LeafBody(node)
     ELSE Join([i \in 1..Len(node.parts) |->
                   <<"--", node.boundary, "\n">> \o Render(node.parts[i]) \o <<"\n">>], <<>>)
          \o <<"--", node.boundary, "--", "\n">>)

Message(tree) == [tree |-> tree, content |-> Render(tree)]

RECURSIVE LeafTexts(_)
\* the decoded texts of the text/plain and text/html leaves of a tree, html
\* with its markup stripped, in order of appearance
LeafTexts(node) ==
    IF node.kind = "plain" THEN <<LeafBody(node)>>
    ELSE IF node.kind = "html" THEN <<stripHtml(LeafBody(node))>>
    ELSE IF node.kind = "encoded" THEN <<<<"Hi">>>>
    ELSE IF node.kind = "pdf" THEN <<>>
    ELSE Join([i \in 1..Len(node.parts) |-> LeafTexts(node.parts[i])], <<>>)

\* extractText as parseEml calls it
ExtractBody ==
    /\ output = <<>>
    /\ output' = <<ExtractSplit(splitHeaderBody(input.content))>>
    /\ UNCHANGED <<input, serverWorld>>

\* parseEml(content, id, filename).body
ParseEml ==
    /\ Len(output) = 1
    /\ output' = Append(output, parseEml(input.content).body)
    /\ UNCHANGED <<input, serverWorld>>

MimeInit ==
    /\ input \in {Message(t) : t \in Level1}
    /\ output = <<>>
    /\ ServersUnused

MimeNext == ExtractBody \/ ParseEml

SpecMime == MimeInit /\ [][MimeNext]_vars

\* --------------------------------------------------- extractText: claims

BlankLine == <<"\n", "\n">>

\* C15: extractText returns the texts of the text/plain and text/html
\* leaves, in order of appearance, joined by a blank line; other leaves
\* contribute nothing and a nested multipart contributes its own result in
\* its place.
C15_LeafTextsInOrder ==
    Len(output) >= 1 => output[1] = Join(LeafTexts(input.tree), BlankLine)

RECURSIVE EveryMultipartHasText(_)
\* every multipart of the tree, at every level, has a text leaf below it
EveryMultipartHasText(node) ==
    node.kind = "multipart" =>
        /\ LeafTexts(node) # <<>>
        /\ \A i \in 1..Len(node.parts) : EveryMultipartHasText(node.parts[i])

\* what does hold of extractText: the same, for the messages whose outer
\* boundary is in lower case and whose multiparts all have a text leaf
C15_HoldsWhenFramedAndTextual ==
    (/\ Len(output) >= 1
     /\ input.tree.boundary = "b1"
     /\ EveryMultipartHasText(input.tree))
    => output[1] = Join(LeafTexts(input.tree), BlankLine)

\* the two-part multipart/alternative message of the scenario
ScenarioB == Multi("b1", <<Leaf("plain"), Leaf("html")>>)

\* C16 as stated: the scenario's record body is "Plain text\n\nRich"
C16_ScenarioAsStated ==
    (Len(output) = 2 /\ input.tree = ScenarioB)
    => output[2] = <<"Plain", " ", "text", "\n", "\n", "Rich">>

\* C16: the scenario's record body is "Plain text\n\n Rich": the space
\* that replaced the <p> tag stays in front of Rich (the line break that
\* replaced </p> is trimmed from the end).
C16_ScenarioBody ==
    (Len(output) = 2 /\ input.tree = ScenarioB)
    => output[2] = <<"Plain", " ", "text", "\n", "\n", " ", "Rich">>

\* the scenario's message, parsed
C16_Witness ==
    /\ Len(output) = 2
    /\ input.tree = ScenarioB
    /\ input.content =
          <<"Content-Type: multipart/alternative; boundary=b1", "\n", "\n",
            "--", "b1", "\n", "Content-Type: text/plain", "\n", "\n",
            "Plain", " ", "text", "\n",
            "--", "b1", "\n", "Content-Type: text/html", "\n", "\n",
            "<p>", "Rich", "</p>", "\n",
            "--", "b1", "--", "\n">>

\* C19: a message whose boundary is declared in upper case is split into
\* its parts just as the same message with the boundary in lower case.
C19_BoundaryCaseKept ==
    (Len(output) >= 1 /\ input.tree.boundary = "B1")
    => output[1] = ExtractSplit(splitHeaderBody(Render([input.tree EXCEPT !.boundary = "b1"])))

\* ======================================== loadAllFolder, loadFromZipBuffer
\* A load walks a sorted list of files. A file is its extension and what
\* reading it gives; its name is its position in the list followed by the
\* extension, so names are distinct and sorted. Texts are sequences of
\* characters.

\* most files in a folder or an archive
MaxFiles == 3

ATTACHMENT_EXTS == {".pdf", ".docx", ".doc", ".xlsx", ".pptx"}

\* record.body.length > 20
MIN_ATTACHMENT_BODY == 20

\* what a load can meet: an email with a text, an email with nothing in
\* it, a PDF whose text has 21 chars, one whose text has 20, one whose
\* extractor throws, a file of another extension and, in an archive, an
\* entry under __MACOSX
EmlFull == [ext |-> ".eml", kind |-> "full"]

EmlBlank == [ext |-> ".eml", kind |-> "blank"]

PdfLong == [ext |-> ".pdf", kind |-> "long"]

PdfShort == [ext |-> ".pdf", kind |-> "short"]

PdfThrows == [ext |-> ".pdf", kind |-> "throws"]

OtherFile == [ext |-> ".txt", kind |-> "other"]

MacOsxEntry == [ext |-> ".eml", kind |-> "macosx"]

FolderFiles == {EmlFull, EmlBlank, PdfLong, PdfShort, PdfThrows, OtherFile}

\* All/ as the startup load finds it: every list of up to MaxFiles files
Folders == UNION {[1..n -> FolderFiles] : n \in 0..MaxFiles}

\* All/ as a later POST /api/load finds it
ReloadFolders ==
    { <<>>,
      <<EmlFull, PdfLong>>,
      <<PdfThrows, EmlBlank, PdfLong>> }

\* the archives given to loadFromZipBuffer
Archives ==
    { <<MacOsxEntry, EmlFull, PdfShort>>,
      <<OtherFile, PdfThrows, MacOsxEntry>> }

ExtChars(ext) ==
    IF ext = ".eml" THEN <<".", "e", "m", "l">>
    ELSE IF ext = ".pdf" THEN <<".", "p", "d", "f">>
    ELSE <<".", "t", "x", "t">>

\* the name of the file at position p
FileName(p, file) == <<<<"1", "2", "3", "4", "5", "6", "7", "8", "9">>[p]>> \o ExtChars(file.ext)

\* fs.readFileSync(fullPath, "utf8") of an email
EmlContent(file) ==
    IF file.kind = "full" THEN <<"Content-Type: text/plain", "\n", "\n", "H", "i">>
    ELSE <<>>

\* `[Could not extract text from ${filename}]`
Placeholder(filename) ==
    <<"[", "C", "o", "u", "l", "d", " ", "n", "o", "t", " ",
      "e", "x", "t", "r", "a", "c", "t", " ", "t", "e", "x", "t", " ",
      "f", "r", "o", "m", " ">> \o filename \o <<"]">>

\* the try/catch of parseAttachment and parseAttachmentFromBuffer: the text
\* the extractor returned, or the placeholder when it threw
ExtractedText(file, filename) ==
    IF file.kind = "throws" THEN Placeholder(filename)
    ELSE IF file.kind = "long" THEN [i \in 1..(MIN_ATTACHMENT_BODY + 1) |-> "x"]
    ELSE [i \in 1..MIN_ATTACHMENT_BODY |-> "x"]

\* a record of the store with its body
Record(id, filename, type, body) ==
    [id |-> id, filename |-> filename, type |-> type, body |-> body, bodyLen |-> Len(body)]

\* the record parseEml returns
EmlRecord(file, id, filename) ==
    Record(id, filename, "email", parseEml(EmlContent(file)).body)

\* the record parseAttachment returns
AttachmentRecord(file, id, filename) ==
    Record(id, filename, "attachment", sanitize(ExtractedText(file, filename)))

\* record.from || record.to || record.subject || record.body (the emails
\* here have no from, to or subject)
KeepEmail(record) == record.body # <<>>

KeepAttachmentOverTwice(record) ==
    record.body # <<>> /\ Len(record.body) > 2 * MIN_ATTACHMENT_BODY

\* record.body && record.body.length > 20
KeepAttachment(record) ==
    record.body # <<>> /\ Len(record.body) > MIN_ATTACHMENT_BODY

NextIdAlways(id, file) == id + 1

\* id++ in the two branches of the loop, and in no other
NextId(id, file) ==
    IF file.ext = ".eml" THEN id + 1
    ELSE IF file.ext \in ATTACHMENT_EXTS THEN id + 1
    ELSE id

\* entries.filter((e) => !e.isDirectory && !e.entryName.startsWith("__MACOSX"))
ZipSorted(entries) == SelectSeq(entries, LAMBDA e : e.kind # "macosx")

\* if (record.from || ...) records.push(record)
PushEmail(records, record) == IF KeepEmail(record) THEN Append(records, record) ELSE records

\* if (record.body && record.body.length > 20) records.push(record)
PushAttachment(records, record) ==
    IF KeepAttachment(record) THEN Append(records, record) ELSE records

RECURSIVE RunLoop(_)
\* the for loop from loader.pos on, up to its next await or to its return:
\* emails are parsed in place, an attachment suspends the loop in
\* await parseAttachment(...) with its id taken
RunLoop(l) ==
    IF l.pos > Len(l.files) THEN [l EXCEPT !.st = "done"]
    ELSE IF l.files[l.pos].ext = ".eml"
    THEN RunLoop([l EXCEPT !.id = NextId(l.id, l.files[l.pos]),
                           !.pos = @ + 1,
                           !.records = PushEmail(@, EmlRecord(l.files[l.pos],
                                                             NextId(l.id, l.files[l.pos]),
                                                             FileName(l.pos, l.files[l.pos])))])
    ELSE IF l.files[l.pos].ext \in ATTACHMENT_EXTS
    THEN [l EXCEPT !.st = "awaiting", !.id = NextId(l.id, l.files[l.pos])]
    ELSE RunLoop([l EXCEPT !.id = NextId(l.id, l.files[l.pos]), !.pos = @ + 1])

\* the loop resumed after await parseAttachment(...): the record is pushed
\* if its body is long enough, and the loop goes on
Resumed(l) ==
    RunLoop([l EXCEPT !.pos = @ + 1,
                      !.records = PushAttachment(@, AttachmentRecord(l.files[l.pos], l.id,
                                                                     FileName(l.pos, l.files[l.pos])))])

\* a load as it starts: records = [], id = 0
Started(who, files) ==
    RunLoop([st |-> "running", who |-> who, files |-> files, pos |-> 1,
             id |-> 0, records |-> <<>>])

StoreAfterEachPush(l) ==
    IF l.who # "zip" THEN l.records ELSE ALL_RECORDS

\* ALL_RECORDS after a step that leaves the load as l: the list the load
\* returned, assigned when await loadAllFolder(...) resumes; nothing calls
\* loadFromZipBuffer to assign its result
StoreAfter(l) ==
    IF l.st = "done" /\ l.who # "zip" THEN l.records ELSE ALL_RECORDS

\* the two assignments after the await, and the state left alone
Installed ==
    /\ ALL_RECORDS' = StoreAfter(loader')
    /\ INDEX' = IF loader'.st = "done" /\ loader'.who # "zip"
                THEN buildIndex(ALL_RECORDS') ELSE INDEX
    /\ booted' = (booted \/ (loader'.who = "boot" /\ loader'.st = "done"))
    /\ UNCHANGED <<chunkWorld, apiKey, pc, ask, calls, resp, mr, input, output, page>>

\* app.listen callback: loadAllFolder(ALL_DIR) up to its first await
BootLoad ==
    /\ ~booted
    /\ loader.st = "idle"
    /\ \E files \in Folders : loader' = Started("boot", files)
    /\ Installed

\* POST /api/load: loadAllFolder(ALL_DIR) up to its first await
FolderLoad ==
    /\ booted
    /\ loader.st = "done"
    /\ \E files \in ReloadFolders : loader' = Started("api", files)
    /\ Installed

\* loadFromZipBuffer(zipBuffer) up to its first await
ZipLoad ==
    /\ booted
    /\ loader.st = "done"
    /\ \E entries \in Archives : loader' = Started("zip", ZipSorted(entries))
    /\ Installed

\* the extractor of the attachment settles and the loop goes on to its next
\* await or to its end
LoadResume ==
    /\ loader.st = "awaiting"
    /\ loader' = Resumed(loader)
    /\ Installed

LoadInit ==
    /\ ALL_RECORDS = <<>>
    /\ INDEX = <<>>
    /\ booted = FALSE
    /\ loader = NoLoad
    /\ apiKey = FALSE
    /\ pc = "idle"
    /\ ask = <<>>
    /\ calls = <<>>
    /\ resp = [status |-> 0, body |-> <<>>]
    /\ ChunksUnused
    /\ mr = NoRun
    /\ input = <<>>
    /\ output = <<>>
    /\ page = NoPage

LoadNext == BootLoad \/ FolderLoad \/ ZipLoad \/ LoadResume

SpecLoad == LoadInit /\ [][LoadNext]_vars

\* ----------------------------------------------------------- load: claims

\* a file with the .eml extension or an attachment extension
Recognized(file) == file.ext \in {".eml", ".pdf", ".docx", ".doc", ".xlsx", ".pptx"}

\* how many of the first p files of the load are recognized
RecognizedUpTo(p) == Cardinality({q \in 1..p : Recognized(loader.files[q])})

\* a file whose record a load keeps: an email with content, an attachment
\* with more than 20 chars of text, an attachment whose extractor threw
Retained(file) == file.kind \in {"full", "long", "throws"}

\* C11: ALL_RECORDS changes only in the step that ends a load, and then to
\* the whole list that load built, one record for every file it keeps; while
\* a load is under way the store stays what it was.
C11_StoreReplacedWholesale ==
    [][ ALL_RECORDS' # ALL_RECORDS =>
          /\ loader'.st = "done"
          /\ loader'.who \in {"boot", "api"}
          /\ loader'.pos = Len(loader'.files) + 1
          /\ ALL_RECORDS' = loader'.records
          /\ Len(ALL_RECORDS') =
                Cardinality({q \in 1..Len(loader'.files) : Retained(loader'.files[q])}) ]_vars

\* a reload suspended at an attachment holds a private list that is neither
\* empty nor the store, and the store still is the previous load's result
C11_Witness ==
    /\ loader.st = "awaiting"
    /\ loader.who = "api"
    /\ loader.records # <<>>
    /\ ALL_RECORDS # <<>>
    /\ ALL_RECORDS # loader.records
    /\ \A k \in 1..Len(loader.records) : loader.records[k] # ALL_RECORDS[1]

\* C13: in the list a load builds and returns, ids are positive and
\* strictly increasing in list order, the record of a file has the number
\* of recognized files up to and including it as its id, and the load has
\* taken exactly one id per recognized file, kept or not.
C13_IdsInProcessingOrder ==
    loader.st # "idle" =>
        LET records == loader.records
        IN /\ \A k \in 1..Len(records) : records[k].id \in Nat \ {0}
           /\ \A k \in 1..Len(records) : \A j \in 1..Len(records) :
                 k < j => records[k].id < records[j].id
           /\ \A k \in 1..Len(records) :
                 \E p \in 1..Len(loader.files) :
                    /\ Recognized(loader.files[p])
                    /\ records[k].filename = FileName(p, loader.files[p])
                    /\ records[k].id = RecognizedUpTo(p)
           /\ loader.st = "done" => loader.id = RecognizedUpTo(Len(loader.files))
           /\ loader.st = "awaiting" => loader.id = RecognizedUpTo(loader.pos)

\* a finished load of a recognized file that is not kept, a file of another
\* extension and a kept file: the single record has id 2
C13_Witness ==
    /\ loader.st = "done"
    /\ Len(loader.files) = 3
    /\ ~Retained(loader.files[1]) /\ Recognized(loader.files[1])
    /\ ~Recognized(loader.files[2])
    /\ Retained(loader.files[3])
    /\ Len(loader.records) = 1
    /\ loader.records[1].id = 2

\* C14: once the load is past an attachment whose extractor threw, its list
\* holds a record for that file whose body is the placeholder naming it, and
\* the load goes on: when it returns it has walked every file and holds a
\* record for every file it keeps.
C14_ExtractorFailureKept ==
    /\ \A p \in 1..Len(loader.files) :
          (loader.files[p].kind = "throws" /\ p < loader.pos) =>
             \E k \in 1..Len(loader.records) :
                /\ loader.records[k].filename = FileName(p, loader.files[p])
                /\ loader.records[k].type = "attachment"
                /\ loader.records[k].body = Placeholder(FileName(p, loader.files[p]))
    /\ loader.st = "done" =>
          /\ loader.pos = Len(loader.files) + 1
          /\ \A p \in 1..Len(loader.files) :
                Retained(loader.files[p]) =>
                   \E k \in 1..Len(loader.records) :
                      loader.records[k].filename = FileName(p, loader.files[p])

\* a finished load whose first file's extractor threw and whose later files
\* were loaded all the same
C14_Witness ==
    /\ loader.st = "done"
    /\ Len(loader.files) = 3
    /\ loader.files[1].kind = "throws"
    /\ loader.files[2].kind = "short"
    /\ loader.files[3].kind = "long"
    /\ Len(loader.records) = 2
    /\ loader.records[1].body = Placeholder(<<"1", ".", "p", "d", "f">>)
    /\ Len(loader.records[1].body) = 35

\* ------------------------------------------------------- browser clients
\* src/public/app.js (the client of the records-in-request server) and
\* src/unnamed/part_001 (the client of the index/select server)

\* calls of ask() suspended at once
MaxAsks == 2

\* failed attempts counted by checkReady
MaxRetry == 2

Clients == {"app.js", "part_001"}

\* promptInput.value: empty, blank, a question
Prompts == {"", " ", "q"}

\* promptInput.value.trim()
trim(v) == IF v = " " THEN "" ELSE v

\* the page once the script has run to its end: loadData() or checkReady()
\* is suspended at its fetch, nothing is typed, no ask is running. The
\* button's disabled attribute comes from the page's markup.
OpenedPage(client, disabled) ==
    [client |-> client, disabled |-> disabled, label |-> "Ask", value |-> "",
     records |-> 0, loading |-> "fetch", retryCount |-> 0, status |-> "",
     result |-> <<>>, asks |-> <<>>]

\* the servers, the text functions and the loader, not part of the page
backWorld == <<ALL_RECORDS, booted, chunkWorld, askWorld, mr, input, output, loader>>

\* loadData() of app.js resumes after fetch("/api/convert-folder") and
\* res.json(): the request fails, or answers with so many records
loadData ==
    /\ page.client = "app.js"
    /\ page.loading = "fetch"
    /\ \E outcome \in {"failed", "0", "2"} :
          page' = IF outcome = "failed"
                  THEN [page EXCEPT !.loading = "done", !.status = "Load failed."]
                  ELSE [page EXCEPT !.loading = "done", !.status = "loaded. Ask away.",
                                    !.records = IF outcome = "2" THEN 2 ELSE 0,
                                    !.disabled = FALSE]
    /\ UNCHANGED backWorld

\* checkReady() of part_001 resumes after fetch("/api/status") and
\* res.json(): data.loaded, not loaded yet, or the request fails
checkReady ==
    /\ page.client = "part_001"
    /\ page.loading = "fetch"
    /\ \E outcome \in {"loaded", "not loaded", "failed"} :
          IF outcome = "loaded"
          THEN page' = [page EXCEPT !.loading = "done", !.status = "loaded. Ask away.",
                                    !.disabled = FALSE]
          ELSE /\ page.retryCount < MaxRetry
               /\ page' = [page EXCEPT !.loading = "timer",
                                       !.retryCount = @ + 1,
                                       !.status = IF outcome = "failed"
                                                  THEN "Connecting to server..."
                                                  ELSE "Loading data..."]
    /\ UNCHANGED backWorld

\* setTimeout(checkReady, 2000) fires: checkReady() up to its fetch
RetryTimer ==
    /\ page.client = "part_001"
    /\ page.loading = "timer"
    /\ page' = [page EXCEPT !.loading = "fetch"]
    /\ UNCHANGED backWorld

\* the user edits the prompt
Type ==
    /\ page.client \in Clients
    /\ \E v \in Prompts : v # page.value /\ page' = [page EXCEPT !.value = v]
    /\ UNCHANGED backWorld

\* a call of ask() suspended at fetch("/api/ask")
Fetching == [at |-> "fetch", ok |-> FALSE]

\* a call of ask() suspended at res.json(), with res.ok
Reading(ok) == [at |-> "json", ok |-> ok]

\* ask() from its call to its first await: the two early returns, or the
\* button disabled and relabelled and the request sent
AskCall(p) ==
    IF trim(p.value) = "" THEN p
    ELSE IF p.client = "app.js" /\ p.records = 0
    THEN [p EXCEPT !.status = "No data loaded."]
    ELSE [p EXCEPT !.disabled = TRUE, !.label = "Thinking...",
                   !.result = <<IF p.client = "app.js" THEN "Thinking..."
                                ELSE "Searching relevant files and analysing...">>,
                   !.asks = Append(@, Fetching)]

\* askBtn.addEventListener("click", ask): a disabled button gets no click
Click ==
    /\ page.client \in Clients
    /\ ~page.disabled
    /\ Len(page.asks) < MaxAsks
    /\ page' = AskCall(page)
    /\ UNCHANGED backWorld

\* promptInput.addEventListener("keydown", ...): Enter calls ask(), Enter
\* with shift is left to the text box
Keydown ==
    /\ page.client \in Clients
    /\ Len(page.asks) < MaxAsks
    /\ \E shiftKey \in BOOLEAN :
          page' = IF shiftKey THEN page ELSE AskCall(page)
    /\ UNCHANGED backWorld

\* the list without its i-th entry
Without(seq, i) == SubSeq(seq, 1, i - 1) \o SubSeq(seq, i + 1, Len(seq))

\* catch (error) { resultOutput.textContent = error.message || ... }
Caught(message) == IF message = "" THEN "Something went wrong." ELSE message

\* the i-th call of ask() ends: what it shows, then the finally block
Finally(p, i, shown) ==
    [p EXCEPT !.result = shown, !.disabled = FALSE, !.label = "Ask",
              !.asks = Without(@, i)]

\* bodies of the /api/ask response: answers with and without filesUsed, no
\* answer, an error with and without text, and a body that is not JSON
AskBodies ==
    { [valid |-> TRUE, answer |-> "A", filesUsed |-> "f", error |-> ""],
      [valid |-> TRUE, answer |-> "A", filesUsed |-> "", error |-> ""],
      [valid |-> TRUE, answer |-> "", filesUsed |-> "", error |-> ""],
      [valid |-> TRUE, answer |-> "", filesUsed |-> "", error |-> "e"],
      [valid |-> FALSE, answer |-> "", filesUsed |-> "", error |-> ""] }

\* resultOutput.textContent after res.json() settles
Shown(client, ok, data) ==
    IF ~data.valid THEN <<Caught("Unexpected token")>>
    ELSE IF ~ok
    THEN <<Caught(IF data.error # "" THEN data.error ELSE "Request failed.")>>
    ELSE <<IF data.answer # "" THEN data.answer ELSE "No answer returned.">>
         \o (IF client = "part_001" /\ data.filesUsed # ""
             THEN <<"Files referenced: ", data.filesUsed>> ELSE <<>>)

\* await fetch("/api/ask") settles for one of the suspended calls: the
\* request fails, or a response arrives
FetchSettled ==
    /\ \E i \in 1..Len(page.asks) :
          /\ page.asks[i].at = "fetch"
          /\ \E outcome \in {"rejected", "ok", "not ok"} :
                page' = IF outcome = "rejected"
                        THEN Finally(page, i, <<Caught("Failed to fetch")>>)
                        ELSE [page EXCEPT !.asks[i] = Reading(outcome = "ok")]
    /\ UNCHANGED backWorld

\* await res.json() settles for one of the suspended calls
JsonSettled ==
    /\ \E i \in 1..Len(page.asks) :
          /\ page.asks[i].at = "json"
          /\ \E data \in AskBodies :
                page' = Finally(page, i, Shown(page.client, page.asks[i].ok, data))
    /\ UNCHANGED backWorld

ClientInit ==
    /\ ALL_RECORDS = <<>>
    /\ booted = FALSE
    /\ ChunksUnused
    /\ AskUnused
    /\ mr = NoRun
    /\ input = <<>>
    /\ output = <<>>
    /\ loader = NoLoad
    /\ page \in {OpenedPage(client, disabled) : client \in Clients, disabled \in BOOLEAN}

ClientNext ==
    \/ loadData
    \/ checkReady
    \/ RetryTimer
    \/ Type
    \/ Click
    \/ Keydown
    \/ FetchSettled
    \/ JsonSettled

SpecClient == ClientInit /\ [][ClientNext]_vars

\* ---------------------------------------------------------- client: claims

\* the calls of ask() whose request has no response yet
InFlight == {i \in 1..Len(page.asks) : page.asks[i].at = "fetch"}

\* C23: the page never has more than one /api/ask request in flight: no
\* interleaving of clicks and Enter key presses starts a second ask while an
\* earlier one still awaits its response.
C23_OneAskInFlight == Cardinality(InFlight) <= 1

\* the second half of the claim: whenever a call of ask() ends, by an answer
\* or by a failure, the button is enabled and labelled "Ask"
ButtonRestoredAfterAsk ==
    [][(page.client \in Clients /\ Len(page'.asks) < Len(page.asks))
       => (~page'.disabled /\ page'.label = "Ask")]_vars

\* a click alone starts no second ask while the button is disabled
DisabledButtonHoldsClicks ==
    [][(page.client \in Clients /\ page.disabled)
       => ~(Click /\ Len(page'.asks) > Len(page.asks))]_vars

\* two requests in flight, the second started by Enter while the button
\* was disabled
C23_TwoInFlight ==
    /\ page.client \in Clients
    /\ Cardinality(InFlight) = 2
    /\ page.disabled
    /\ page.label = "Thinking..."

\* the button enabled and labelled "Ask" while a request is in flight
C23_EnabledWhileInFlight ==
    /\ page.client \in Clients
    /\ InFlight # {}
    /\ ~page.disabled
    /\ page.label = "Ask"

====
